---- MODULE Spec2Model ----
(***************************************************************************)
(* Model of the XSD-to-OWL rule pipeline: core/pipeline.py                 *)
(* (TransformationPhase, TransformationPipeline), auxiliary/decorators.py  *)
(* (existence guards) and auxiliary/property_utils.py (property registry,  *)
(* create / enhance helpers).                                              *)
(***************************************************************************)
EXTENDS Integers, Sequences, FiniteSets, TLC

(***************************************************************************)
(* Bounds                                                                  *)
(***************************************************************************)
MaxRules == 3      \* add_rule_to_phase calls per pipeline
MaxRuns == 2       \* pipeline.execute calls per pipeline
MaxClassify == 2   \* classification calls on one element
MaxRegistered == 3 \* register_rule calls on one RuleRegistry

(***************************************************************************)
(* The parsed tree (input).  A node carries its name attribute, whether    *)
(* its cardinality makes it functional, whether it has documentation, and  *)
(* its ordered children.  Node 1 is the root.                              *)
(***************************************************************************)
NoName == ""
NoneUri == "None"

TreeDistinct ==
  [ name       |-> <<"A", "PaymentOption", "B", "PaymentOption">>,
    functional |-> <<FALSE, FALSE, FALSE, TRUE>>,
    doc        |-> <<FALSE, FALSE, FALSE, TRUE>>,
    children   |-> << <<2, 3>>, <<>>, <<4>>, <<>> >>,
    parent     |-> <<0, 1, 1, 3>> ]

TreeTwins ==
  [ name       |-> <<"A", "PaymentOption", "B", "PaymentOption">>,
    functional |-> <<FALSE, FALSE, FALSE, FALSE>>,
    doc        |-> <<FALSE, FALSE, FALSE, FALSE>>,
    children   |-> << <<2, 3>>, <<>>, <<4>>, <<>> >>,
    parent     |-> <<0, 1, 1, 3>> ]

\* two sibling subtrees with the same text: B[PaymentOption] twice
TreeNested ==
  [ name       |-> <<"A", "B", "PaymentOption", "B", "PaymentOption">>,
    functional |-> <<FALSE, FALSE, FALSE, FALSE, FALSE>>,
    doc        |-> <<FALSE, FALSE, FALSE, FALSE, FALSE>>,
    children   |-> << <<2, 4>>, <<3>>, <<>>, <<5>>, <<>> >>,
    parent     |-> <<0, 1, 2, 1, 4>> ]

\* two elements without a name attribute, of different text
TreeNameless ==
  [ name       |-> <<"A", "PaymentOption", "B", "PaymentOption", NoName, NoName>>,
    functional |-> <<FALSE, FALSE, FALSE, TRUE, FALSE, FALSE>>,
    doc        |-> <<FALSE, FALSE, FALSE, TRUE, FALSE, TRUE>>,
    children   |-> << <<2, 3, 5>>, <<>>, <<4, 6>>, <<>>, <<>>, <<>> >>,
    parent     |-> <<0, 1, 1, 3, 1, 3>> ]

Trees == {TreeDistinct, TreeTwins}
Root == 1
Nodes(t) == DOMAIN t.name

\* an identity that tells every node of the tree from every other
tostring_of_node(t, n) == <<n>>

\* etree.tostring(element): the text of the element with its attributes and
\* its whole subtree; it does not mention the parent.
RECURSIVE tostring(_, _)
tostring(t, n) ==
  << t.name[n], t.functional[n], t.doc[n],
     [i \in DOMAIN t.children[n] |-> tostring(t, t.children[n][i])] >>

(***************************************************************************)
(* Naming service (external collaborator).                                 *)
(***************************************************************************)
lower_case_initial(name) ==
  CASE name = "PaymentOption" -> "paymentOption"
    [] name = "AirBrakeType" -> "airBrakeType"
    [] name = "A" -> "a"
    [] name = "B" -> "b"
    [] OTHER -> name

get_safe_uri(name, is_property) ==
  IF is_property THEN lower_case_initial(name) ELSE name

get_class_uri(name) == get_safe_uri(name, FALSE)

(***************************************************************************)
(* Vocabulary                                                              *)
(***************************************************************************)
RDF_type == "rdf:type"
RDFS_label == "rdfs:label"
RDFS_domain == "rdfs:domain"
RDFS_range == "rdfs:range"
RDFS_comment == "rdfs:comment"
SKOS_definition == "skos:definition"
OWL_Class == "owl:Class"
OWL_DatatypeProperty == "owl:DatatypeProperty"
OWL_ObjectProperty == "owl:ObjectProperty"
OWL_FunctionalProperty == "owl:FunctionalProperty"
XSD_string == "xsd:string"
RuleEffect == "rule:effect"

EmptyRegistry == [n \in {} |-> 0]

(***************************************************************************)
(* property_utils.py: the process-wide property registry                   *)
(***************************************************************************)
\* a reset that leaves the entries in place
keep_registry(registry) == registry

\* reset_property_registry(): _property_registry = {}
reset_property_registry(registry) == EmptyRegistry

register_property(registry, property_name, property_uri, is_datatype) ==
  LET key == lower_case_initial(property_name)
  IN  [k \in (DOMAIN registry) \cup {key} |->
         IF k = key THEN [uri |-> property_uri, is_datatype |-> is_datatype]
                    ELSE registry[k]]

is_registered(registry, property_name) ==
  lower_case_initial(property_name) \in DOMAIN registry

get_property_uri_for_name(registry, property_name, is_property) ==
  LET key == lower_case_initial(property_name)
  IN  IF key \in DOMAIN registry THEN registry[key].uri
      ELSE get_safe_uri(key, is_property)

property_exists(g, property_uri) ==
  \/ <<property_uri, RDF_type, OWL_DatatypeProperty>> \in g
  \/ <<property_uri, RDF_type, OWL_ObjectProperty>> \in g

(***************************************************************************)
(* property_utils.py: creation helpers.  Each returns the new graph and    *)
(* the new registry.                                                       *)
(***************************************************************************)
create_datatype_property(g, registry, property_uri, property_name, parent_uri, range_uri, functional, doc) ==
  [ graph |->
      g \cup {<<property_uri, RDF_type, OWL_DatatypeProperty>>,
              <<property_uri, RDFS_label, property_name>>,
              <<property_uri, RDFS_range, range_uri>>}
        \cup (IF parent_uri # NoneUri
                THEN {<<property_uri, RDFS_domain, parent_uri>>} ELSE {})
        \cup (IF functional
                THEN {<<property_uri, RDF_type, OWL_FunctionalProperty>>} ELSE {})
        \cup (IF doc
                THEN {<<property_uri, SKOS_definition, "doc">>} ELSE {}),
    registry |-> register_property(registry, property_name, property_uri, TRUE) ]

\* a creation that leaves the target class and the range out
create_without_range(g, registry, property_uri, property_name, parent_uri, target_name, functional, doc) ==
  [ graph |->
      g \cup {<<property_uri, RDF_type, OWL_ObjectProperty>>,
              <<property_uri, RDFS_label, property_name>>}
        \cup (IF parent_uri # NoneUri
                THEN {<<property_uri, RDFS_domain, parent_uri>>} ELSE {}),
    registry |-> register_property(registry, property_name, property_uri, FALSE) ]

create_object_property(g, registry, property_uri, property_name, parent_uri, target_name, functional, doc) ==
  LET target_class_uri == get_safe_uri(target_name, FALSE)
  IN
  [ graph |->
      g \cup (IF <<target_class_uri, RDF_type, OWL_Class>> \notin g
                THEN {<<target_class_uri, RDF_type, OWL_Class>>,
                      <<target_class_uri, RDFS_label, target_name>>,
                      <<target_class_uri, RDFS_comment, property_name>>}
                ELSE {})
        \cup {<<property_uri, RDF_type, OWL_ObjectProperty>>,
              <<property_uri, RDFS_label, property_name>>,
              <<property_uri, RDFS_range, target_class_uri>>}
        \cup (IF parent_uri # NoneUri
                THEN {<<property_uri, RDFS_domain, parent_uri>>} ELSE {})
        \cup (IF functional
                THEN {<<property_uri, RDF_type, OWL_FunctionalProperty>>} ELSE {})
        \cup (IF doc
                THEN {<<property_uri, SKOS_definition, "doc">>} ELSE {}),
    registry |-> register_property(registry, property_name, property_uri, FALSE) ]

\* an enhancement that declares the property again
enhance_redeclaring(g, property_uri, doc, parent_uri) ==
  g \cup {<<property_uri, RDF_type, OWL_DatatypeProperty>>}
    \cup (IF parent_uri # NoneUri
            THEN {<<property_uri, RDFS_domain, parent_uri>>} ELSE {})

\* enhance_existing_property: a domain is added only when the property has
\* no rdfs:domain triple at all, documentation only when it has none.
enhance_existing_property(g, property_uri, doc, parent_uri) ==
  LET has_domain == \E t \in g : t[1] = property_uri /\ t[2] = RDFS_domain
      g1 == IF ~has_domain /\ parent_uri # NoneUri
              THEN g \cup {<<property_uri, RDFS_domain, parent_uri>>} ELSE g
      has_doc == \E t \in g1 : t[1] = property_uri /\ t[2] = SKOS_definition
  IN  IF ~has_doc /\ doc
        THEN g1 \cup {<<property_uri, SKOS_definition, "doc">>} ELSE g1

(***************************************************************************)
(* config/special_cases.py: the configured tables and their lookups.  A    *)
(* table set is a record of the three tables the classification reads.     *)
(***************************************************************************)
NoType == ""   \* the element has no type attribute

\* the tables as shipped: NEVER_OBJECT_PROPERTIES is an empty set
ShippedTables ==
  [ FORCE_DATATYPE_PROPERTIES |-> {"airBrakedMassLoaded", "airBrakedMass"},
    FORCE_OBJECT_PROPERTIES   |-> {"administrativeDataSet"},
    NEVER_OBJECT_PROPERTIES   |-> {} ]

\* the tables after a name of the forced-reference table has also been put
\* into the never-reference table
GuardedTables ==
  [ FORCE_DATATYPE_PROPERTIES |-> {"airBrakedMassLoaded", "airBrakedMass"},
    FORCE_OBJECT_PROPERTIES   |-> {"administrativeDataSet", "PaymentOption"},
    NEVER_OBJECT_PROPERTIES   |-> {"administrativeDataSet"} ]

TableSets == {ShippedTables, GuardedTables}

DATATYPE_PROPERTY_TYPES ==
  {"Numeric1-1", "Numeric2-2", "Numeric3-3", "Numeric4-4", "Numeric5-5",
   "Numeric6-6", "Numeric7-7", "Numeric8-8", "Numeric9-9", "Numeric10-10",
   "Numeric11-11", "Numeric12-12"}

\* the type attribute values and names of the elements offered to the
\* classification, and what the string tests of the code answer on them
TypeNames ==
  {NoType, "Numeric2-2", "NumericCode", "xs:date", "SimpleCodeType",
   "tns:SimpleDateType", "WagonType"}
ElementNames ==
  {NoName, "AirBrakeType", "airBrakedMass", "administrativeDataSet",
   "expiryDate", "PaymentOption"}

\* type_attr.startswith('Numeric')
starts_with_Numeric(type_attr) == type_attr \in {"Numeric2-2", "NumericCode"}

\* re.match(r'^Numeric\d+(-\d+)?$', type_name)
matches_Numeric_pattern(type_name) == type_name \in DATATYPE_PROPERTY_TYPES

\* ':' in type_attr
contains_colon(type_attr) == type_attr \in {"xs:date", "tns:SimpleDateType"}

\* 'simple' in type_attr.lower()
contains_simple(type_attr) ==
  type_attr \in {"SimpleCodeType", "tns:SimpleDateType"}

\* any(term in property_name.lower() for term in
\*     ('date', 'time', 'expiry', 'until', 'since'))
has_temporal_term(property_name) == property_name \in {"expiryDate"}

\* a lookup in the forced-literal table alone
in_force_datatype_table(tables, element_name) ==
  element_name \in tables.FORCE_DATATYPE_PROPERTIES

is_forced_datatype_property(tables, element_name) ==
  \/ element_name \in tables.FORCE_DATATYPE_PROPERTIES
  \/ element_name \in tables.NEVER_OBJECT_PROPERTIES

\* a lookup in the forced-reference table alone
in_force_object_table(tables, element_name) ==
  element_name \in tables.FORCE_OBJECT_PROPERTIES

is_forced_object_property(tables, element_name) ==
  /\ element_name \in tables.FORCE_OBJECT_PROPERTIES
  /\ element_name \notin tables.NEVER_OBJECT_PROPERTIES

is_datatype_property_type(type_name) ==
  IF type_name \in DATATYPE_PROPERTY_TYPES THEN TRUE
  ELSE IF matches_Numeric_pattern(type_name) THEN TRUE
  ELSE FALSE

should_never_be_object_property(tables, element_name, element_type) ==
  IF element_type # NoType /\ matches_Numeric_pattern(element_type) THEN TRUE
  ELSE element_name \in tables.NEVER_OBJECT_PROPERTIES

(***************************************************************************)
(* property_utils.py: classification and range of a property.  An element  *)
(* is given by its name and type attributes and by whether it has an       *)
(* xs:complexType / xs:simpleType child (direct) or descendant (deep).     *)
(***************************************************************************)
\* a classification by the structure alone
structure_only(tables, element) ==
  IF element.complex_direct THEN FALSE
  ELSE IF element.type # NoType /\ ~contains_simple(element.type) THEN FALSE
  ELSE TRUE

\* a classification that consults the forced-reference table before the
\* type attribute and the structure
forced_reference_first(tables, element) ==
  LET element_name == IF element.name # NoName THEN element.name
                      ELSE element.property_name
  IN  IF is_forced_datatype_property(tables, element_name) THEN TRUE
      ELSE IF is_forced_object_property(tables, element_name) THEN FALSE
      ELSE IF starts_with_Numeric(element.type) THEN TRUE
      ELSE IF element.complex_direct THEN FALSE
      ELSE IF element.type # NoType /\ ~contains_simple(element.type) THEN FALSE
      ELSE TRUE

\* is_datatype_property(element, property_name): TRUE for a datatype
\* (literal-valued) property, FALSE for an object (reference-valued) one
is_datatype_property(tables, element) ==
  LET element_name == IF element.name # NoName THEN element.name
                      ELSE element.property_name
      type_attr == element.type
  IN  IF /\ element_name # NoName
         /\ \/ is_forced_datatype_property(tables, element_name)
            \/ should_never_be_object_property(tables, element_name, type_attr)
        THEN TRUE
      ELSE IF /\ type_attr # NoType
              /\ \/ starts_with_Numeric(type_attr)
                 \/ matches_Numeric_pattern(type_attr)
        THEN TRUE
      ELSE IF element.complex_direct THEN FALSE
      ELSE IF type_attr # NoType /\ ~contains_simple(type_attr) THEN FALSE
      ELSE TRUE

XSD_decimal == "xsd:decimal"
XSD_dateTime == "xsd:dateTime"

\* context.get_type_reference(type_attr): the URI of a qualified type name
get_type_reference(type_attr) ==
  CASE type_attr = "xs:date" -> "xsd:date"
    [] type_attr = "tns:SimpleDateType" -> "base:SimpleDateType"
    [] OTHER -> type_attr

\* a range inference that looks at the property name alone
range_by_name(element, property_name) ==
  IF property_name # NoName /\ has_temporal_term(property_name)
    THEN XSD_dateTime
  ELSE XSD_string

\* a range inference that looks at the name before the declared type
temporal_first(element, property_name) ==
  LET type_attr == element.type
  IN  IF type_attr # NoType /\ starts_with_Numeric(type_attr) THEN XSD_decimal
      ELSE IF property_name # NoName /\ has_temporal_term(property_name)
        THEN XSD_dateTime
      ELSE IF type_attr # NoType /\ contains_colon(type_attr)
        THEN get_type_reference(type_attr)
      ELSE XSD_string

determine_datatype_range(element, property_name) ==
  LET type_attr == element.type
  IN  IF type_attr # NoType /\ starts_with_Numeric(type_attr) THEN XSD_decimal
      ELSE IF type_attr # NoType /\ contains_colon(type_attr)
        THEN get_type_reference(type_attr)
      ELSE IF property_name # NoName /\ has_temporal_term(property_name)
        THEN XSD_dateTime
      ELSE XSD_string

(***************************************************************************)
(* core/registry.py: RuleRegistry.  A rule object is given by its rule_id  *)
(* and priority; two rule objects may carry the same rule_id.              *)
(***************************************************************************)
RegistryRules ==
  { [rule_id |-> "r1", priority |-> 100],
    [rule_id |-> "r1", priority |-> 50],
    [rule_id |-> "r2", priority |-> 100] }

\* the ids activate_rule and deactivate_rule are called with; no rule with
\* id "r3" is ever registered
RuleIds == {"r1", "r2", "r3"}

\* None as the answer of get_rule_by_id
NoRule == [rule_id |-> "None", priority |-> -1]

\* get_rules(): list(self._rules)
get_rules(rs) == rs

\* a listing of the active rules from the end of the list
active_rules_reversed(rs, active) ==
  LET listed == SelectSeq(rs, LAMBDA rule : rule.rule_id \in active)
  IN  [k \in DOMAIN listed |-> listed[Len(listed) + 1 - k]]

\* get_active_rules(): the registered rules whose id is in the active set
get_active_rules(rs, active) ==
  SelectSeq(rs, LAMBDA rule : rule.rule_id \in active)

\* a lookup that answers with the head of the list
get_head_rule(rs, rule_id) == IF rs = <<>> THEN NoRule ELSE Head(rs)

\* get_rule_by_id(rule_id): the first registered rule with that id
get_rule_by_id(rs, rule_id) ==
  LET hits == {i \in DOMAIN rs : rs[i].rule_id = rule_id}
  IN  IF hits = {} THEN NoRule
      ELSE rs[CHOOSE i \in hits : \A j \in hits : i <= j]

(***************************************************************************)
(* Rules (input).  A rule object offers rule_id, priority, matches and     *)
(* transform.  names is the set of element names its own matches accepts,  *)
(* guard the decorator wrapped around matches, kind what transform does.   *)
(***************************************************************************)
NoPriority == -1   \* the rule object has no priority attribute

RuleHi == [rule_id |-> "hi", priority |-> 150, names |-> {"PaymentOption"},
           guard |-> "none", kind |-> "mark"]
RuleLo == [rule_id |-> "lo", priority |-> 50, names |-> {"PaymentOption", "A"},
           guard |-> "none", kind |-> "mark"]
RuleEq == [rule_id |-> "eq", priority |-> 50, names |-> {"PaymentOption", "B"},
           guard |-> "none", kind |-> "mark"]
RuleDt == [rule_id |-> "dt", priority |-> 100, names |-> {"PaymentOption"},
           guard |-> "none", kind |-> "datatype_or_enhance"]
RuleDg == [rule_id |-> "dg", priority |-> 100, names |-> {"PaymentOption"},
           guard |-> "property", kind |-> "datatype"]
RuleOb == [rule_id |-> "ob", priority |-> 50, names |-> {"PaymentOption"},
           guard |-> "none", kind |-> "object"]

\* a rule object without a priority attribute
RuleNp == [rule_id |-> "np", priority |-> NoPriority, names |-> {"PaymentOption"},
           guard |-> "none", kind |-> "mark"]

\* guarded rules: a class rule behind check_class_exists, an object property
\* rule behind check_property_exists; both also match elements without name
RuleCg == [rule_id |-> "cg", priority |-> 100, names |-> {"PaymentOption", NoName},
           guard |-> "class", kind |-> "class"]
RuleOg == [rule_id |-> "og", priority |-> 100, names |-> {"PaymentOption", NoName},
           guard |-> "property", kind |-> "object"]

\* the (rule, phase_index) arguments offered to add_rule_to_phase
AddInputs ==
  { <<RuleHi, 0>>, <<RuleLo, 0>>, <<RuleEq, 0>>,
    <<RuleDt, 1>>, <<RuleDg, 1>>, <<RuleOb, 3>>, <<RuleHi, 5>> }

(***************************************************************************)
(* decorators.py: existence guards wrapped around a rule's matches         *)
(***************************************************************************)
matches_method(rule, t, n) == t.name[n] \in rule.names

check_class_exists(rule, t, n, g) ==
  IF t.name[n] = NoName THEN matches_method(rule, t, n)
  ELSE IF <<get_class_uri(t.name[n]), RDF_type, OWL_Class>> \in g THEN FALSE
  ELSE matches_method(rule, t, n)

\* a guard that looks for an owl:DatatypeProperty declaration only
check_datatype_exists(rule, t, n, g, registry) ==
  IF t.name[n] = NoName THEN matches_method(rule, t, n)
  ELSE IF <<get_safe_uri(t.name[n], TRUE), RDF_type, OWL_DatatypeProperty>> \in g
         THEN FALSE
  ELSE matches_method(rule, t, n)

check_property_exists(rule, t, n, g, registry) ==
  IF t.name[n] = NoName THEN matches_method(rule, t, n)
  ELSE
    LET property_name == lower_case_initial(t.name[n])
        existing_uri == IF property_name \in DOMAIN registry
                          THEN registry[property_name].uri ELSE NoneUri
        property_uri == get_safe_uri(t.name[n], TRUE)
    IN  IF existing_uri # NoneUri /\ property_exists(g, existing_uri) THEN FALSE
        ELSE IF property_exists(g, property_uri) THEN FALSE
        ELSE matches_method(rule, t, n)

\* rule.matches(element, context)
matches(rule, t, n, g, registry) ==
  CASE rule.guard = "class" -> check_class_exists(rule, t, n, g)
    [] rule.guard = "property" -> check_property_exists(rule, t, n, g, registry)
    [] OTHER -> matches_method(rule, t, n)

(***************************************************************************)
(* rule.transform(element, context)                                        *)
(***************************************************************************)
parent_uri_of(t, n) ==
  IF t.parent[n] = 0 THEN NoneUri ELSE get_class_uri(t.name[t.parent[n]])

\* section 4.3 of the specification: look the property up, enhance it when
\* it exists, create it otherwise
create_or_enhance(g, registry, t, n) ==
  LET uri == get_property_uri_for_name(registry, t.name[n], TRUE)
  IN  IF property_exists(g, uri)
        THEN [graph |-> enhance_existing_property(g, uri, t.doc[n],
                                                  parent_uri_of(t, n)),
              registry |-> registry]
        ELSE create_datatype_property(g, registry, uri,
               lower_case_initial(t.name[n]), parent_uri_of(t, n), XSD_string,
               t.functional[n], t.doc[n])

transform(rule, t, n, g, registry) ==
  LET uri == get_property_uri_for_name(registry, t.name[n], TRUE)
      pname == lower_case_initial(t.name[n])
  IN
  CASE rule.kind = "mark" ->
         [graph |-> g \cup {<<get_class_uri(t.name[n]), RuleEffect, rule.rule_id>>},
          registry |-> registry]
    [] rule.kind = "class" ->
         [graph |-> g \cup {<<get_class_uri(t.name[n]), RDF_type, OWL_Class>>},
          registry |-> registry]
    [] rule.kind = "datatype" ->
         create_datatype_property(g, registry, uri, pname, parent_uri_of(t, n),
                                  XSD_string, t.functional[n], t.doc[n])
    [] rule.kind = "object" ->
         create_object_property(g, registry, uri, pname, parent_uri_of(t, n),
                                t.name[n], t.functional[n], t.doc[n])
    [] OTHER -> create_or_enhance(g, registry, t, n)

(***************************************************************************)
(* pipeline.py: TransformationPhase                                        *)
(***************************************************************************)
\* the phases list built by TransformationPipeline.__init__
PhaseNames ==
  <<"Class Creation", "Property Creation", "Enumeration Creation",
    "Relationship Creation", "Cleanup">>
NumPhases == Len(PhaseNames)
PhaseIdx == 0 .. (NumPhases - 1)

\* key of sorted(): getattr(r, 'priority', 0)
priority_key(rule) == IF rule.priority = NoPriority THEN 0 ELSE rule.priority

\* a sort that is not stable: a rule goes in front of the rules of equal key
RECURSIVE insert_unstable(_, _)
insert_unstable(sorted, rule) ==
  IF sorted = <<>> THEN <<rule>>
  ELSE IF priority_key(Head(sorted)) > priority_key(rule)
         THEN <<Head(sorted)>> \o insert_unstable(Tail(sorted), rule)
         ELSE <<rule>> \o sorted

\* insertion point of a rule in a list already sorted by descending key:
\* behind every rule whose key is not smaller (a stable sort)
RECURSIVE insert_sorted(_, _)
insert_sorted(sorted, rule) ==
  IF sorted = <<>> THEN <<rule>>
  ELSE IF priority_key(Head(sorted)) >= priority_key(rule)
         THEN <<Head(sorted)>> \o insert_sorted(Tail(sorted), rule)
         ELSE <<rule>> \o sorted

\* the rules left in registration order
registration_order(rs) == rs

\* sorted(self.rules, key=..., reverse=True)
RECURSIVE sorted_by_priority(_)
sorted_by_priority(rs) ==
  IF rs = <<>> THEN <<>>
  ELSE insert_sorted(sorted_by_priority(SubSeq(rs, 1, Len(rs) - 1)), rs[Len(rs)])

is_processed(processed_elements, t, n) == tostring(t, n) \in processed_elements

mark_processed(processed_elements, t, n) == processed_elements \cup {tostring(t, n)}

\* position in rs of the first rule that matches, 0 when none does
first_match(rs, t, n, g, registry) ==
  LET hits == {i \in DOMAIN rs : matches(rs[i], t, n, g, registry)}
  IN  IF hits = {} THEN 0 ELSE CHOOSE i \in hits : \A j \in hits : i <= j

\* the rule _process_element applies to the node, 0 when it applies none
applied_index(rs, processed_elements, t, n, g, registry) ==
  IF is_processed(processed_elements, t, n) THEN 0
  ELSE first_match(rs, t, n, g, registry)

\* _process_element(element, rules, context): the context and the markers it
\* leaves, and the position in rs of the rule it applied (0 when none)
process_element(rs, processed, t, n, g, registry) ==
  LET k == applied_index(rs, processed, t, n, g, registry)
      out == transform(rs[k], t, n, g, registry)
  IN  IF k = 0
        THEN [graph |-> g, registry |-> registry, processed |-> processed,
              applied |-> 0]
        ELSE [graph |-> out.graph, registry |-> out.registry,
              processed |-> mark_processed(processed, t, n), applied |-> k]

\* a traversal that does not go below the node
no_descent(t, n, pending) == Tail(pending)

\* for child in element: _process_element_tree(child, rules, context); the
\* children are pending, in order, before whatever was pending already
descend(t, n, pending) == t.children[n] \o Tail(pending)

\* _process_element_tree run to its end from a stack of pending nodes
RECURSIVE traverse(_, _, _, _)
traverse(st, rs, t, pending) ==
  IF pending = <<>> THEN st
  ELSE LET n == Head(pending)
       IN  CHOOSE out \in
             { traverse(r, rs, t, descend(t, n, pending)) :
                 r \in {process_element(rs, st.processed, t, n, st.graph,
                                        st.registry)} } : TRUE

\* pipeline.execute of a newly built pipeline holding the rule lists rls, on
\* a fresh context: the context after the first k phases
RECURSIVE execute_phases(_, _, _)
execute_phases(rls, t, k) ==
  IF k = 0 THEN [graph |-> {}, registry |-> EmptyRegistry]
  ELSE CHOOSE out \in
         { [graph |-> r.graph, registry |-> r.registry] :
             r \in { traverse([graph |-> before.graph,
                               registry |-> before.registry,
                               processed |-> {}, applied |-> 0],
                              rs, t, <<Root>>) :
                       before \in {execute_phases(rls, t, k - 1)},
                       rs \in {sorted_by_priority(rls[k - 1])} } } : TRUE

final_graph(rls, t) == execute_phases(rls, t, NumPhases).graph

(***************************************************************************)
(* State                                                                   *)
(***************************************************************************)
VARIABLES
  tree,                \* xsd_root, the same tree for every execute
  rules,               \* phase.rules of each phase, in registration order
  processed_elements,  \* phase._processed_elements of each phase
  graph,               \* context.graph
  property_registry,   \* property_utils._property_registry
  pc,                  \* "idle" or "running" (inside pipeline.execute)
  phase_pos,           \* number of phases of this execute already started
  sorted_rules,        \* local of phase.execute
  todo,                \* nodes whose _process_element_tree call is pending
  adds,                \* add_rule_to_phase calls made
  runs,                \* pipeline.execute calls made
  fresh,               \* the context has not been used since it was reset
  run_fresh,           \* the running execute started on a fresh context
  calls,               \* history: transform calls [run, phase, node, rule]
  visits,              \* history: _process_element_tree calls per node in
                       \* the phase execution under way
  first_visit,         \* history: per phase and node, whether a rule
                       \* matched when the node was first visited
  results,             \* history: [fresh, graph] at the end of each execute
  element,             \* the element offered to the classification
  tables,              \* the tables of config/special_cases.py
  verdicts,            \* history: what is_datatype_property returned
  created,             \* a property has been created for the element
  _rules,              \* RuleRegistry._rules (the rule ids, in order)
  _active_rules,       \* RuleRegistry._active_rules
  last_op,             \* history: the last two RuleRegistry calls
  lookup               \* history: the last get_rule_by_id call

vars == <<tree, rules, processed_elements, graph, property_registry, pc,
          phase_pos, sorted_rules, todo, adds, runs, fresh, run_fresh, calls,
          visits, first_visit, results, element, tables, verdicts, created,
          _rules, _active_rules, last_op, lookup>>

\* the variables of the pipeline, of the classification, of the rule registry
pipeline_vars == <<tree, rules, processed_elements, pc, phase_pos, sorted_rules,
                   todo, adds, runs, fresh, run_fresh, calls, visits,
                   first_visit, results>>
classify_vars == <<element, tables, verdicts, created>>
registry_vars == <<_rules, _active_rules, last_op, lookup>>

\* the phases list walked from its end
phase_at_reversed(k) == NumPhases - k

\* index in the phases list of the k-th phase pipeline.execute runs
phase_at(k) == k - 1

cur_phase == phase_at(phase_pos)

\* get_rule_by_id has not been called
NoLookup ==
  [called |-> FALSE, rule_id |-> "", known |-> FALSE, outcome |-> "none",
   value |-> NoRule]

\* no RuleRegistry call has been made
NoOp == [op |-> "none", rule_id |-> "", prev_op |-> "none", prev_id |-> ""]

\* no element has been offered
NoElement ==
  [name |-> NoName, property_name |-> NoName, type |-> NoType,
   complex_direct |-> FALSE, complex_deep |-> FALSE, simple_direct |-> FALSE]

Init ==
  /\ tree \in Trees
  /\ rules = [p \in PhaseIdx |-> <<>>]
  /\ processed_elements = [p \in PhaseIdx |-> {}]
  /\ graph = {}
  /\ property_registry = EmptyRegistry
  /\ pc = "idle"
  /\ phase_pos = 0
  /\ sorted_rules = <<>>
  /\ todo = <<>>
  /\ adds = 0
  /\ runs = 0
  /\ fresh = TRUE
  /\ run_fresh = TRUE
  /\ calls = <<>>
  /\ visits = [n \in Nodes(tree) |-> 0]
  /\ first_visit = [p \in PhaseIdx |-> [n \in Nodes(tree) |-> "unseen"]]
  /\ results = <<>>
  /\ element = NoElement
  /\ tables = ShippedTables
  /\ verdicts = <<>>
  /\ created = FALSE
  /\ _rules = <<>>
  /\ _active_rules = {}
  /\ last_op = NoOp
  /\ lookup = NoLookup

\* an add that indexes the phases list as self.phases[phase_index] does with
\* no test before it: a negative index counts from the end of the list
add_rule_to_phase_wrapping(rule, phase_index) ==
  /\ pc = "idle"
  /\ runs = 0
  /\ adds < MaxRules
  /\ adds' = adds + 1
  /\ rules' = IF 0 <= phase_index /\ phase_index < NumPhases
                THEN [rules EXCEPT ![phase_index] = Append(@, rule)]
                ELSE IF -NumPhases <= phase_index /\ phase_index < 0
                THEN [rules EXCEPT ![NumPhases + phase_index] = Append(@, rule)]
                ELSE rules
  /\ UNCHANGED <<tree, processed_elements, graph, property_registry, pc,
                 phase_pos, sorted_rules, todo, runs, fresh, run_fresh, calls,
                 visits, first_visit, results>>
  /\ UNCHANGED <<classify_vars, registry_vars>>

\* TransformationPipeline.add_rule_to_phase(rule, phase_index); rules are
\* registered while the pipeline is being set up
add_rule_to_phase(rule, phase_index) ==
  /\ pc = "idle"
  /\ runs = 0
  /\ adds < MaxRules
  /\ adds' = adds + 1
  /\ rules' = IF 0 <= phase_index /\ phase_index < NumPhases
                THEN [rules EXCEPT ![phase_index] = Append(@, rule)]
                ELSE rules
  /\ UNCHANGED <<tree, processed_elements, graph, property_registry, pc,
                 phase_pos, sorted_rules, todo, runs, fresh, run_fresh, calls,
                 visits, first_visit, results>>
  /\ UNCHANGED <<classify_vars, registry_vars>>

\* the caller builds a new context and calls reset_property_registry()
reset_context ==
  /\ pc = "idle"
  /\ ~fresh
  /\ runs < MaxRuns
  /\ graph' = {}
  /\ property_registry' = reset_property_registry(property_registry)
  /\ fresh' = TRUE
  /\ UNCHANGED <<tree, rules, processed_elements, pc, phase_pos, sorted_rules,
                 todo, adds, runs, run_fresh, calls, visits, first_visit,
                 results>>
  /\ UNCHANGED <<classify_vars, registry_vars>>

\* TransformationPipeline.execute(xsd_root, context) is entered
pipeline_execute ==
  /\ pc = "idle"
  /\ runs < MaxRuns
  /\ pc' = "running"
  /\ runs' = runs + 1
  /\ run_fresh' = fresh
  /\ fresh' = FALSE
  /\ phase_pos' = 0
  /\ todo' = <<>>
  /\ UNCHANGED <<tree, rules, processed_elements, graph, property_registry,
                 sorted_rules, adds, calls, visits, first_visit, results>>
  /\ UNCHANGED <<classify_vars, registry_vars>>

\* a phase execution that starts by emptying the processed set of its phase
phase_execute_clearing ==
  /\ pc = "running"
  /\ todo = <<>>
  /\ phase_pos < NumPhases
  /\ phase_pos' = phase_pos + 1
  /\ sorted_rules' = sorted_by_priority(rules[phase_at(phase_pos + 1)])
  /\ todo' = <<Root>>
  /\ visits' = [n \in Nodes(tree) |-> 0]
  /\ processed_elements' =
       [processed_elements EXCEPT ![phase_at(phase_pos + 1)] = {}]
  /\ UNCHANGED <<tree, rules, graph, property_registry,
                 pc, adds, runs, fresh, run_fresh, calls, first_visit, results>>
  /\ UNCHANGED <<classify_vars, registry_vars>>

\* TransformationPhase.execute(xsd_root, context) of the next phase is
\* entered: the rules are sorted and the traversal starts at the root
phase_execute ==
  /\ pc = "running"
  /\ todo = <<>>
  /\ phase_pos < NumPhases
  /\ phase_pos' = phase_pos + 1
  /\ sorted_rules' = sorted_by_priority(rules[phase_at(phase_pos + 1)])
  /\ todo' = <<Root>>
  /\ visits' = [n \in Nodes(tree) |-> 0]
  /\ UNCHANGED <<tree, rules, processed_elements, graph, property_registry,
                 pc, adds, runs, fresh, run_fresh, calls, first_visit, results>>
  /\ UNCHANGED <<classify_vars, registry_vars>>

\* a traversal step whose marker is put into the processed set of every phase
process_element_tree_shared ==
  /\ pc = "running"
  /\ todo # <<>>
  /\ LET n == Head(todo)
         r == process_element(sorted_rules, processed_elements[cur_phase],
                              tree, n, graph, property_registry)
     IN  /\ visits' = [visits EXCEPT ![n] = @ + 1]
         /\ first_visit' =
              IF first_visit[cur_phase][n] # "unseen" THEN first_visit
              ELSE [first_visit EXCEPT ![cur_phase][n] =
                      IF first_match(sorted_rules, tree, n, graph,
                                     property_registry) # 0
                        THEN "matched" ELSE "nomatch"]
         /\ graph' = r.graph
         /\ property_registry' = r.registry
         /\ processed_elements' =
              [p \in PhaseIdx |->
                 IF r.applied = 0 THEN processed_elements[p]
                 ELSE mark_processed(processed_elements[p], tree, n)]
         /\ calls' =
              IF r.applied = 0 THEN calls
              ELSE Append(calls,
                     [run |-> runs, phase |-> cur_phase, node |-> n,
                      rule |-> sorted_rules[r.applied].rule_id])
         /\ todo' = descend(tree, n, todo)
  /\ UNCHANGED <<tree, rules, pc, phase_pos, sorted_rules, adds, runs, fresh,
                 run_fresh, results>>
  /\ UNCHANGED <<classify_vars, registry_vars>>

\* one call of _process_element_tree(element, rules, context):
\* _process_element on the node, then the same for each child in order
process_element_tree ==
  /\ pc = "running"
  /\ todo # <<>>
  /\ LET n == Head(todo)
         r == process_element(sorted_rules, processed_elements[cur_phase],
                              tree, n, graph, property_registry)
     IN  /\ visits' = [visits EXCEPT ![n] = @ + 1]
         /\ first_visit' =
              IF first_visit[cur_phase][n] # "unseen" THEN first_visit
              ELSE [first_visit EXCEPT ![cur_phase][n] =
                      IF first_match(sorted_rules, tree, n, graph,
                                     property_registry) # 0
                        THEN "matched" ELSE "nomatch"]
         /\ graph' = r.graph
         /\ property_registry' = r.registry
         /\ processed_elements' =
              [processed_elements EXCEPT ![cur_phase] = r.processed]
         /\ calls' =
              IF r.applied = 0 THEN calls
              ELSE Append(calls,
                     [run |-> runs, phase |-> cur_phase, node |-> n,
                      rule |-> sorted_rules[r.applied].rule_id])
         /\ todo' = descend(tree, n, todo)
  /\ UNCHANGED <<tree, rules, pc, phase_pos, sorted_rules, adds, runs, fresh,
                 run_fresh, results>>
  /\ UNCHANGED <<classify_vars, registry_vars>>

\* the loop over the phases is exhausted: pipeline.execute returns
pipeline_return ==
  /\ pc = "running"
  /\ todo = <<>>
  /\ phase_pos = NumPhases
  /\ pc' = "idle"
  /\ results' = Append(results, [fresh |-> run_fresh, graph |-> graph])
  /\ UNCHANGED <<tree, rules, processed_elements, graph, property_registry,
                 phase_pos, sorted_rules, todo, adds, runs, fresh, run_fresh,
                 calls, visits, first_visit>>
  /\ UNCHANGED <<classify_vars, registry_vars>>

Next ==
  \/ \E a \in AddInputs : add_rule_to_phase(a[1], a[2])
  \/ reset_context
  \/ pipeline_execute
  \/ phase_execute
  \/ process_element_tree
  \/ pipeline_return

Spec == Init /\ [][Next]_vars

TypeOK ==
  /\ pc \in {"idle", "running"}
  /\ phase_pos \in 0 .. NumPhases
  /\ adds \in 0 .. MaxRules
  /\ runs \in 0 .. MaxRuns

(***************************************************************************)
(* Classification of one element: the functions of property_utils.py and   *)
(* special_cases.py applied to an element and a table set drawn from       *)
(* bounded sets.                                                           *)
(***************************************************************************)
PropertyNames == {lower_case_initial(n) : n \in ElementNames}

Elements ==
  { e \in [name : ElementNames, property_name : PropertyNames,
           type : TypeNames, complex_direct : BOOLEAN,
           complex_deep : BOOLEAN, simple_direct : BOOLEAN] :
      /\ e.complex_direct => e.complex_deep
      /\ e.name # NoName => e.property_name = lower_case_initial(e.name) }

\* the name the tables are looked up with
element_name_of(e) == IF e.name # NoName THEN e.name ELSE e.property_name

InitClassify ==
  /\ tree = TreeDistinct
  /\ rules = [p \in PhaseIdx |-> <<>>]
  /\ processed_elements = [p \in PhaseIdx |-> {}]
  /\ graph = {}
  /\ property_registry = EmptyRegistry
  /\ pc = "idle"
  /\ phase_pos = 0
  /\ sorted_rules = <<>>
  /\ todo = <<>>
  /\ adds = 0
  /\ runs = 0
  /\ fresh = TRUE
  /\ run_fresh = TRUE
  /\ calls = <<>>
  /\ visits = [n \in Nodes(tree) |-> 0]
  /\ first_visit = [p \in PhaseIdx |-> [n \in Nodes(tree) |-> "unseen"]]
  /\ results = <<>>
  /\ element \in Elements
  /\ tables \in TableSets
  /\ verdicts = <<>>
  /\ created = FALSE
  /\ _rules = <<>>
  /\ _active_rules = {}
  /\ last_op = NoOp
  /\ lookup = NoLookup

\* a classification that remembers its answer in the property registry
call_caching ==
  /\ Len(verdicts) < MaxClassify
  /\ verdicts' = Append(verdicts,
                        [fn |-> "is_datatype_property",
                         result |-> is_datatype_property(tables, element)])
  /\ property_registry' =
       register_property(property_registry, element.property_name,
                         get_safe_uri(element.property_name, TRUE),
                         is_datatype_property(tables, element))
  /\ UNCHANGED <<graph, element, tables, created>>
  /\ UNCHANGED <<pipeline_vars, registry_vars>>

\* a call is_datatype_property(element, property_name)
call_is_datatype_property ==
  /\ Len(verdicts) < MaxClassify
  /\ verdicts' = Append(verdicts,
                        [fn |-> "is_datatype_property",
                         result |-> is_datatype_property(tables, element)])
  /\ UNCHANGED <<graph, property_registry, element, tables, created>>
  /\ UNCHANGED <<pipeline_vars, registry_vars>>

\* a call is_forced_object_property(element_name)
call_is_forced_object_property ==
  /\ Len(verdicts) < MaxClassify
  /\ verdicts' = Append(verdicts,
                        [fn |-> "is_forced_object_property",
                         result |-> is_forced_object_property(
                                      tables, element_name_of(element))])
  /\ UNCHANGED <<graph, property_registry, element, tables, created>>
  /\ UNCHANGED <<pipeline_vars, registry_vars>>

\* a call determine_datatype_range(element, property_name, context)
call_determine_datatype_range ==
  /\ Len(verdicts) < MaxClassify
  /\ verdicts' = Append(verdicts,
                        [fn |-> "determine_datatype_range",
                         result |-> determine_datatype_range(
                                      element, element.property_name)])
  /\ UNCHANGED <<graph, property_registry, element, tables, created>>
  /\ UNCHANGED <<pipeline_vars, registry_vars>>

\* sections 4.2 and 4.3 of the specification: the property of the element
\* is created as the classification says, a literal-valued one with the
\* range determine_datatype_range infers
create_property(g, registry, tabs, e) ==
  LET uri == get_property_uri_for_name(registry, e.property_name, TRUE)
  IN  IF is_datatype_property(tabs, e)
        THEN create_datatype_property(g, registry, uri, e.property_name,
               NoneUri, determine_datatype_range(e, e.property_name),
               FALSE, FALSE)
        ELSE create_object_property(g, registry, uri, e.property_name,
               NoneUri, IF e.type # NoType THEN e.type ELSE e.name,
               FALSE, FALSE)

call_create_property ==
  /\ ~created
  /\ element.property_name # NoName
  /\ LET r == create_property(graph, property_registry, tables, element)
     IN  /\ graph' = r.graph
         /\ property_registry' = r.registry
  /\ created' = TRUE
  /\ UNCHANGED <<element, tables, verdicts>>
  /\ UNCHANGED <<pipeline_vars, registry_vars>>

NextClassify ==
  \/ call_is_datatype_property
  \/ call_is_forced_object_property
  \/ call_determine_datatype_range
  \/ call_create_property

SpecClassify == InitClassify /\ [][NextClassify]_vars

(***************************************************************************)
(* RuleRegistry: registering rules and toggling their activity.            *)
(***************************************************************************)
InitRegistry ==
  /\ tree = TreeDistinct
  /\ rules = [p \in PhaseIdx |-> <<>>]
  /\ processed_elements = [p \in PhaseIdx |-> {}]
  /\ graph = {}
  /\ property_registry = EmptyRegistry
  /\ pc = "idle"
  /\ phase_pos = 0
  /\ sorted_rules = <<>>
  /\ todo = <<>>
  /\ adds = 0
  /\ runs = 0
  /\ fresh = TRUE
  /\ run_fresh = TRUE
  /\ calls = <<>>
  /\ visits = [n \in Nodes(tree) |-> 0]
  /\ first_visit = [p \in PhaseIdx |-> [n \in Nodes(tree) |-> "unseen"]]
  /\ results = <<>>
  /\ element = NoElement
  /\ tables = ShippedTables
  /\ verdicts = <<>>
  /\ created = FALSE
  /\ _rules = <<>>
  /\ _active_rules = {}
  /\ last_op = NoOp
  /\ lookup = NoLookup

\* the history after a call op(rule_id)
record_op(op, rule_id) ==
  [op |-> op, rule_id |-> rule_id,
   prev_op |-> last_op.op, prev_id |-> last_op.rule_id]

\* RuleRegistry.register_rule(rule)
register_rule(rule) ==
  /\ Len(_rules) < MaxRegistered
  /\ _rules' = Append(_rules, rule)
  /\ _active_rules' = _active_rules \cup {rule.rule_id}
  /\ last_op' = record_op("register_rule", rule.rule_id)
  /\ UNCHANGED lookup
  /\ UNCHANGED <<graph, property_registry, pipeline_vars, classify_vars>>

\* RuleRegistry.activate_rule(rule_id)
activate_rule(rule_id) ==
  /\ _active_rules' = _active_rules \cup {rule_id}
  /\ last_op' = record_op("activate_rule", rule_id)
  /\ UNCHANGED lookup
  /\ UNCHANGED <<_rules, graph, property_registry, pipeline_vars, classify_vars>>

\* a deactivation that takes the rule off the registered list as well
unregister_rule(rule_id) ==
  /\ _active_rules' = _active_rules \ {rule_id}
  /\ _rules' = SelectSeq(_rules, LAMBDA rule : rule.rule_id # rule_id)
  /\ last_op' = record_op("deactivate_rule", rule_id)
  /\ UNCHANGED lookup
  /\ UNCHANGED <<graph, property_registry, pipeline_vars, classify_vars>>

\* RuleRegistry.deactivate_rule(rule_id)
deactivate_rule(rule_id) ==
  /\ _active_rules' = IF rule_id \in _active_rules
                        THEN _active_rules \ {rule_id} ELSE _active_rules
  /\ last_op' = record_op("deactivate_rule", rule_id)
  /\ UNCHANGED lookup
  /\ UNCHANGED <<_rules, graph, property_registry, pipeline_vars, classify_vars>>

\* a call RuleRegistry.get_rule_by_id(rule_id): the loop over _rules
\* returns the first rule with the id, and None is returned after it; the
\* method has no raise
call_get_rule_by_id(rule_id) ==
  /\ lookup' = [called |-> TRUE, rule_id |-> rule_id,
                known |-> \E i \in DOMAIN _rules : _rules[i].rule_id = rule_id,
                outcome |-> "return",
                value |-> get_rule_by_id(_rules, rule_id)]
  /\ UNCHANGED <<_rules, _active_rules, last_op>>
  /\ UNCHANGED <<graph, property_registry, pipeline_vars, classify_vars>>

NextRegistry ==
  \/ \E rule \in RegistryRules : register_rule(rule)
  \/ \E rule_id \in RuleIds : activate_rule(rule_id)
  \/ \E rule_id \in RuleIds : deactivate_rule(rule_id)
  \/ \E rule_id \in RuleIds : call_get_rule_by_id(rule_id)

SpecRegistry == InitRegistry /\ [][NextRegistry]_vars

(***************************************************************************)
(* A pipeline whose rules are also held by a RuleRegistry: the rules are   *)
(* registered and added to the first phase while the pipeline is set up,   *)
(* and toggled between executions.                                         *)
(***************************************************************************)
ActiveInputs == { <<RuleHi, 0>>, <<RuleLo, 0>> }

InitActive ==
  /\ Init
  /\ tree = TreeDistinct

NextActive ==
  \/ \E a \in ActiveInputs : add_rule_to_phase(a[1], a[2])
  \/ \E a \in ActiveInputs :
       /\ pc = "idle" /\ adds = 0
       /\ \A i \in DOMAIN _rules : _rules[i] # a[1]
       /\ register_rule(a[1])
  \/ pc = "idle" /\ deactivate_rule(RuleHi.rule_id)
  \/ pc = "idle" /\ activate_rule(RuleHi.rule_id)
  \/ pipeline_execute
  \/ phase_execute
  \/ process_element_tree
  \/ pipeline_return

SpecActive == InitActive /\ [][NextActive]_vars

(***************************************************************************)
(* A pipeline one of whose rules has no priority attribute.                *)
(***************************************************************************)
DefaultInputs == { <<RuleNp, 0>>, <<RuleLo, 0>>, <<RuleHi, 0>> }

NextDefault ==
  \/ \E a \in DefaultInputs : add_rule_to_phase(a[1], a[2])
  \/ pipeline_execute
  \/ phase_execute
  \/ process_element_tree
  \/ pipeline_return

SpecDefault == Init /\ [][NextDefault]_vars

(***************************************************************************)
(* Properties                                                              *)
(***************************************************************************)
\* transform calls the phase with list index p has made on node n
calls_on(p, n) == {i \in DOMAIN calls : calls[i].phase = p /\ calls[i].node = n}

last_call == calls[Len(calls)]

\* C1 (conflict resolution): when a phase offers a node that it has not
\* marked processed to its rules, the rule whose transform is called is a
\* matching rule of highest priority among the phase's rules, its effect is
\* put into the graph, and no other transform is called on the node; when no
\* rule matches, no transform is called.
C1_HighestPriorityApplied ==
  [][ ( /\ pc = "running"
        /\ todo # <<>>
        /\ ~is_processed(processed_elements[cur_phase], tree, Head(todo)) )
      => LET n == Head(todo)
             rs == rules[cur_phase]
             M == {i \in DOMAIN rs :
                     matches(rs[i], tree, n, graph, property_registry)}
         IN  IF M = {} THEN calls' = calls
             ELSE /\ Len(calls') = Len(calls) + 1
                  /\ \E i \in M :
                       /\ \A j \in M :
                            priority_key(rs[j]) <= priority_key(rs[i])
                       /\ calls'[Len(calls')] =
                            [run |-> runs, phase |-> cur_phase, node |-> n,
                             rule |-> rs[i].rule_id]
                       /\ graph' = transform(rs[i], tree, n, graph,
                                             property_registry).graph
    ]_vars

\* C1 witness: the priority-150 and the priority-50 rule are registered in
\* one phase, both accept node 2, and the phase has applied the priority-150
\* rule to it: its effect is in the graph, the other rule's is not.
C1_Witness ==
  /\ \E i, j \in DOMAIN rules[0] : rules[0][i] = RuleLo /\ rules[0][j] = RuleHi
  /\ \E i \in calls_on(0, 2) : calls[i].rule = "hi"
  /\ \A i \in calls_on(0, 2) : calls[i].rule # "lo"
  /\ <<"PaymentOption", RuleEffect, "hi">> \in graph
  /\ <<"PaymentOption", RuleEffect, "lo">> \notin graph

\* C2 (one rule per node per phase): over any sequence of execute calls a
\* phase calls at most one transform on a node, and exactly one when some
\* rule of the phase matched the node at its first visit.
C2_OneTransformPerNode ==
  \A p \in PhaseIdx : \A n \in Nodes(tree) :
    /\ Cardinality(calls_on(p, n)) <= 1
    /\ first_visit[p][n] = "matched" => Cardinality(calls_on(p, n)) = 1

\* C3 (tie-breaking): the rule whose transform is called was registered
\* before every other rule of the same priority that matches the node.
C3_FirstRegisteredWinsTie ==
  [][ Len(calls') = Len(calls) + 1
      => LET c == calls'[Len(calls')]
             rs == rules[c.phase]
         IN  \E i \in DOMAIN rs :
               /\ rs[i].rule_id = c.rule
               /\ \A j \in 1 .. (i - 1) :
                    priority_key(rs[j]) = priority_key(rs[i])
                      => ~matches(rs[j], tree, c.node, graph, property_registry)
    ]_vars

\* C3 witness: two different rules of equal priority that both accept a node
\* are registered in a phase, and the phase has applied the one registered
\* first to that node.
C3_Witness ==
  \E p \in PhaseIdx : \E i, j \in DOMAIN rules[p] : \E n \in Nodes(tree) :
    /\ i < j
    /\ rules[p][i].rule_id # rules[p][j].rule_id
    /\ priority_key(rules[p][i]) = priority_key(rules[p][j])
    /\ \A k \in DOMAIN rules[p] :
         priority_key(rules[p][k]) <= priority_key(rules[p][i])
    /\ tree.name[n] \in rules[p][i].names \cap rules[p][j].names
    /\ \E c \in calls_on(p, n) : calls[c].rule = rules[p][i].rule_id

\* the rule lists with the list of phase p rearranged by the permutation f
reordered(p, f) ==
  [rules EXCEPT ![p] = [i \in DOMAIN rules[p] |-> rules[p][f[i]]]]

\* C4 (determinism under reordering): registering the rules of a phase in
\* any other order yields the same final graph as the run just finished on
\* a new pipeline, also when rules of equal priority match the same node.
C4_SameGraphUnderReordering ==
  (pc = "idle" /\ Len(results) = 1)
    => \A p \in PhaseIdx : \A f \in Permutations(DOMAIN rules[p]) :
         \A rls \in {reordered(p, f)} :
           final_graph(rls, tree) = results[1].graph

\* a finished first run produced the graph final_graph computes
FirstRunIsFinalGraph ==
  (pc = "idle" /\ Len(results) >= 1) => results[1].graph = final_graph(rules, tree)

\* C5 (unconditional descent): within a phase execution no node is visited
\* twice, and when the traversal of the phase is over every node of the tree
\* has been visited exactly once, whatever matched or was marked processed.
C5_EveryNodeVisitedOnce ==
  /\ \A n \in Nodes(tree) : visits[n] <= 1
  /\ (pc = "running" /\ phase_pos >= 1 /\ todo = <<>>)
       => \A n \in Nodes(tree) : visits[n] = 1

\* C5 witness: a phase traversal of a second execute is over; node 3 was
\* marked processed in the first execute (so it was skipped now), the root
\* matched no rule, and node 4 below node 3 was still visited.
C5_Witness ==
  /\ pc = "running" /\ todo = <<>> /\ runs = 2 /\ phase_pos = 1
  /\ \E i \in calls_on(0, 3) : calls[i].run = 1
  /\ calls_on(0, 1) = {}
  /\ first_visit[0][1] = "nomatch"
  /\ visits[4] = 1

\* C6 (phase ordering): within one execute the transform calls are ordered
\* by the list position of their phase; the k-th phase traversal of an
\* execute works with the rules of the k-th phase of the list, and no call
\* of the execute belongs to a later phase of the list.
C6_PhasesInListOrder ==
  /\ \A i, j \in DOMAIN calls :
       (i < j /\ calls[i].run = calls[j].run) => calls[i].phase <= calls[j].phase
  /\ (pc = "running" /\ phase_pos >= 1)
       => /\ sorted_rules = sorted_by_priority(rules[phase_pos - 1])
          /\ \A i \in DOMAIN calls :
               calls[i].run = runs => calls[i].phase <= phase_pos - 1

\* C6 witness: in one execute a rule of the class creation phase and,
\* later, a rule of the property creation phase have been applied.
C6_Witness ==
  \E i, j \in DOMAIN calls :
    /\ i < j /\ calls[i].run = calls[j].run
    /\ PhaseNames[calls[i].phase + 1] = "Class Creation"
    /\ PhaseNames[calls[j].phase + 1] = "Property Creation"

\* C7 (idempotence of the run): any two executes of the pipeline on the
\* tree that each started on a freshly reset context end with equal graphs.
C7_FreshRunsGiveEqualGraphs ==
  \A i, j \in DOMAIN results :
    (results[i].fresh /\ results[j].fresh) => results[i].graph = results[j].graph

type_declarations(g, uri) ==
  {t \in g : t[1] = uri /\ t[2] = RDF_type
               /\ t[3] \in {OWL_Class, OWL_DatatypeProperty, OWL_ObjectProperty}}

\* C8 (at-most-one creation): in every reachable state every URI has at most
\* one type declaration among owl:Class, owl:DatatypeProperty and
\* owl:ObjectProperty.
C8_AtMostOneTypeDeclaration ==
  \A t \in graph : Cardinality(type_declarations(graph, t[1])) <= 1

\* C9 (enhance-existing adds every new domain): when an execute in which the
\* create-or-enhance rule was applied to the PaymentOption node under A and
\* to the one under B is over, the graph holds one declaration of the
\* property and a domain triple for A and for B.
C9_BothDomainsAfterRun ==
  ( /\ pc = "idle" /\ runs = 1
    /\ \E i \in calls_on(1, 2) : calls[i].rule = "dt"
    /\ \E i \in calls_on(1, 4) : calls[i].rule = "dt" )
  => /\ Cardinality(type_declarations(graph, "paymentOption")) = 1
     /\ <<"paymentOption", RDFS_domain, "A">> \in graph
     /\ <<"paymentOption", RDFS_domain, "B">> \in graph

\* C10 (idempotent merge): on every reachable graph, for every property,
\* documentation flag and parent, enhance_existing_property removes no
\* triple, adds no rdf:type triple, and a second call with the same
\* arguments leaves the graph as the first call left it.
C10_EnhanceIdempotent ==
  \A uri \in {"paymentOption", "a"} : \A d \in BOOLEAN :
    \A parent \in {NoneUri, "A", "B"} :
      LET g1 == enhance_existing_property(graph, uri, d, parent)
      IN  /\ graph \subseteq g1
          /\ {t \in g1 : t[2] = RDF_type} = {t \in graph : t[2] = RDF_type}
          /\ enhance_existing_property(g1, uri, d, parent) = g1

\* C10 witness: the property was created from node 2 and then enhanced from
\* node 4, which added the documentation node 2 did not have; node 4 is
\* functional, yet no type triple was added for that.
C10_Witness ==
  /\ tree = TreeDistinct
  /\ \E i \in calls_on(1, 2) : calls[i].rule = "dt"
  /\ \E i \in calls_on(1, 4) : calls[i].rule = "dt"
  /\ <<"paymentOption", SKOS_definition, "doc">> \in graph
  /\ <<"paymentOption", RDF_type, OWL_DatatypeProperty>> \in graph
  /\ <<"paymentOption", RDF_type, OWL_FunctionalProperty>> \notin graph

classifications == {i \in DOMAIN verdicts : verdicts[i].fn = "is_datatype_property"}

\* C12 (forced-literal override wins over structure): whenever
\* is_datatype_property has been called on an element whose name is in the
\* forced-literal table, it returned literal (TRUE), whatever complex type
\* definition the element has as a child or as a descendant and whatever
\* its type attribute is.
C12_ForcedLiteralWinsOverStructure ==
  \A i \in classifications :
    in_force_datatype_table(tables, element_name_of(element))
      => verdicts[i].result = TRUE

\* C12 witness: the function has answered for a forced-literal name on an
\* element with a complex type child and a type attribute that is not a
\* simple one.
C12_Witness ==
  /\ element.name = "airBrakedMass"
  /\ element.complex_direct /\ element.complex_deep
  /\ element.type = "WagonType"
  /\ \E i \in classifications : verdicts[i].result = TRUE

\* the calls of is_forced_object_property made so far
forced_object_checks ==
  {i \in DOMAIN verdicts : verdicts[i].fn = "is_forced_object_property"}

\* C13 (forced-reference guard): is_forced_object_property(name) answers
\* TRUE exactly when the name is in the forced-reference table and not in
\* the never-reference table; for a name in both tables it answers FALSE.
C13_ForcedReferenceGuard ==
  \A i \in forced_object_checks :
    LET name == element_name_of(element)
    IN  /\ verdicts[i].result = TRUE
             <=> /\ name \in tables.FORCE_OBJECT_PROPERTIES
                 /\ name \notin tables.NEVER_OBJECT_PROPERTIES
        /\ (name \in tables.FORCE_OBJECT_PROPERTIES
              \cap tables.NEVER_OBJECT_PROPERTIES)
             => verdicts[i].result = FALSE

\* C13 witness: the function has answered FALSE for a name that is in both
\* tables.
C13_Witness ==
  /\ element_name_of(element) \in tables.FORCE_OBJECT_PROPERTIES
  /\ element_name_of(element) \in tables.NEVER_OBJECT_PROPERTIES
  /\ \E i \in forced_object_checks : verdicts[i].result = FALSE

\* C14 as stated (classification decision order): the answer of
\* is_datatype_property is the first applicable step of (1) name in the
\* forced-literal table: literal, (2) name in the forced-reference table and
\* not in the never-reference table: reference, (3) type matching the
\* Numeric pattern: literal, (4) a complex type definition below the
\* element: reference, a simple type definition or scalar-looking type
\* attribute: literal, (5) literal.
C14_DecisionOrderAsStated ==
  \A i \in classifications :
    LET name == element_name_of(element)
    IN  verdicts[i].result =
          IF name \in tables.FORCE_DATATYPE_PROPERTIES THEN TRUE
          ELSE IF /\ name \in tables.FORCE_OBJECT_PROPERTIES
                  /\ name \notin tables.NEVER_OBJECT_PROPERTIES THEN FALSE
          ELSE IF matches_Numeric_pattern(element.type) THEN TRUE
          ELSE IF element.complex_deep THEN FALSE
          ELSE TRUE

\* C14 (classification decision order, amended): the answer of
\* is_datatype_property is the first applicable step of (1) the element has
\* a name that is in the forced-literal or the never-reference table, or a
\* name and a type matching ^Numeric\d+(-\d+)?$: literal, (2) the type
\* starts with "Numeric": literal, (3) a complexType child: reference,
\* (4) a type attribute without "simple" in it: reference, (5) literal.
\* The forced-reference table is not consulted: a forced-reference name
\* with a Numeric type is literal; an element with a complexType child and
\* a simpleType child is reference unless step (1) or (2) applies.
C14_DecisionOrder ==
  \A i \in classifications :
    LET name == element_name_of(element)
        step1 == /\ name # NoName
                 /\ \/ name \in tables.FORCE_DATATYPE_PROPERTIES
                    \/ name \in tables.NEVER_OBJECT_PROPERTIES
                    \/ element.type \in DATATYPE_PROPERTY_TYPES
        step2 == element.type \in {"Numeric2-2", "NumericCode"}
        step3 == element.complex_direct
        step4 == element.type \notin {NoType, "SimpleCodeType",
                                      "tns:SimpleDateType"}
    IN  /\ verdicts[i].result =
             IF step1 THEN TRUE
             ELSE IF step2 THEN TRUE
             ELSE IF step3 THEN FALSE
             ELSE IF step4 THEN FALSE
             ELSE TRUE
        /\ (name \in tables.FORCE_OBJECT_PROPERTIES
              /\ element.type \in DATATYPE_PROPERTY_TYPES)
             => verdicts[i].result = TRUE
        /\ (element.complex_direct /\ element.simple_direct
              /\ ~step1 /\ ~step2)
             => verdicts[i].result = FALSE

\* C14 witness: the function has answered literal for a forced-reference
\* name whose type matches the Numeric pattern.
C14_Witness ==
  /\ tables = ShippedTables
  /\ element.name = "administrativeDataSet"
  /\ element.type = "Numeric2-2"
  /\ is_forced_object_property(tables, element.name)
  /\ \E i \in classifications : verdicts[i].result = TRUE

\* C15 (classification totality and purity): every call of
\* is_datatype_property, on any element of the input set and any table
\* set, returns TRUE (literal) or FALSE (reference), returns what every
\* earlier call on the same element and tables returned, also when a
\* property has been created in between, and leaves the graph and the
\* property registry as they are.
C15_TotalAndPure ==
  [][ (/\ Len(verdicts') = Len(verdicts) + 1
       /\ verdicts'[Len(verdicts')].fn = "is_datatype_property")
        => /\ verdicts'[Len(verdicts')].result \in BOOLEAN
           /\ \A i \in classifications :
                verdicts[i].result = verdicts'[Len(verdicts')].result
           /\ graph' = graph
           /\ property_registry' = property_registry
           /\ element' = element /\ tables' = tables ]_vars

\* C15 witness: the function has answered twice for an element with no
\* name and no type attribute.
C15_Witness ==
  /\ element.name = NoName /\ element.property_name = NoName
  /\ element.type = NoType
  /\ Cardinality(classifications) >= 2
  /\ \A i \in classifications : verdicts[i].result \in BOOLEAN

\* the calls of determine_datatype_range made so far
range_inferences ==
  {i \in DOMAIN verdicts : verdicts[i].fn = "determine_datatype_range"}

\* C16 as stated (range inference order): determine_datatype_range answers
\* decimal for a Numeric type; otherwise dateTime when the property name
\* has a temporal cue; otherwise the resolved type when the type is a
\* qualified one; otherwise string.  The temporal cue goes before a
\* qualified type.
C16_RangeOrderAsStated ==
  \A i \in range_inferences :
    verdicts[i].result =
      IF element.type \in {"Numeric2-2", "NumericCode"} THEN XSD_decimal
      ELSE IF element.property_name = "expiryDate" THEN XSD_dateTime
      ELSE IF element.type \in {"xs:date", "tns:SimpleDateType"}
        THEN get_type_reference(element.type)
      ELSE XSD_string

\* C16 (range inference order, amended): determine_datatype_range answers
\* decimal for a type starting with "Numeric"; otherwise the type resolved
\* through the naming service when the type contains ":"; otherwise
\* dateTime when the property name has a temporal cue; otherwise string.
\* A qualified type goes before the temporal cue.
C16_RangeOrder ==
  \A i \in range_inferences :
    /\ verdicts[i].result =
         IF element.type \in {"Numeric2-2", "NumericCode"} THEN XSD_decimal
         ELSE IF element.type \in {"xs:date", "tns:SimpleDateType"}
           THEN get_type_reference(element.type)
         ELSE IF element.property_name = "expiryDate" THEN XSD_dateTime
         ELSE XSD_string
    /\ (element.property_name = "expiryDate"
          /\ element.type \in {"xs:date", "tns:SimpleDateType"})
         => verdicts[i].result # XSD_dateTime

\* C16 witness: the function has answered with the resolved type for a
\* property name with a temporal cue and a qualified type.
C16_Witness ==
  /\ element.property_name = "expiryDate"
  /\ element.type = "xs:date"
  /\ \E i \in range_inferences :
       verdicts[i].result = get_type_reference("xs:date")

\* C17 (Numeric-pattern scenario): for the element named AirBrakeType with
\* declared type Numeric2-2, under either table set and whatever its
\* children are, is_datatype_property answers literal,
\* determine_datatype_range answers decimal, Numeric2-2 is a datatype
\* property type, and the property created for the element is a datatype
\* property whose only range is decimal.
C17_NumericPatternScenario ==
  (element.name = "AirBrakeType" /\ element.type = "Numeric2-2")
    => /\ is_datatype_property_type(element.type)
       /\ \A i \in classifications : verdicts[i].result = TRUE
       /\ \A i \in range_inferences : verdicts[i].result = XSD_decimal
       /\ created
            => LET uri == get_safe_uri("airBrakeType", TRUE)
               IN  /\ <<uri, RDF_type, OWL_DatatypeProperty>> \in graph
                   /\ <<uri, RDF_type, OWL_ObjectProperty>> \notin graph
                   /\ \A t \in graph :
                        (t[1] = uri /\ t[2] = RDFS_range) => t[3] = XSD_decimal
                   /\ <<uri, RDFS_range, XSD_decimal>> \in graph

\* C17 witness: the AirBrakeType element of type Numeric2-2 has been
\* classified and its property created with the decimal range.
C17_Witness ==
  /\ element.name = "AirBrakeType" /\ element.type = "Numeric2-2"
  /\ \E i \in classifications : verdicts[i].result = TRUE
  /\ created
  /\ <<get_safe_uri("airBrakeType", TRUE), RDFS_range, XSD_decimal>> \in graph

\* the object properties declared in the graph
object_properties ==
  {t[1] : t \in {u \in graph : u[2] = RDF_type /\ u[3] = OWL_ObjectProperty}}

\* C18 as stated (unresolvable type): an object property whose target class
\* is declared nowhere is created without an rdfs:range triple (other than
\* the literal range a datatype declaration of the same URI carries) and no
\* class is invented for the target.
C18_NoRangeNoClassAsStated ==
  \A p \in object_properties :
    /\ \A u \in graph : ~(u[1] = p /\ u[2] = RDFS_range /\ u[3] # XSD_string)
    /\ \A u \in graph : ~(u[2] = RDF_type /\ u[3] = OWL_Class)

\* C18 (unresolvable type, amended): an object property whose target class
\* is not declared in the graph is still created; create_object_property
\* declares the target class itself (owl:Class, with a label and a comment
\* naming the property) and gives the property an rdfs:range to it; the
\* graph holds no anomaly annotation on the property, and every execute
\* started has returned once the pipeline is idle.
C18_TargetClassInvented ==
  /\ \A p \in object_properties :
       /\ \E u \in graph :
            /\ u[1] = p /\ u[2] = RDFS_range
            /\ <<u[3], RDF_type, OWL_Class>> \in graph
            /\ \E l \in graph : l[1] = u[3] /\ l[2] = RDFS_label
            /\ \E c \in graph : c[1] = u[3] /\ c[2] = RDFS_comment
       /\ \A u \in graph :
            u[1] = p => u[2] \in {RDF_type, RDFS_label, RDFS_domain,
                                  RDFS_range, SKOS_definition}
  /\ pc = "idle" => Len(results) = runs

\* C18 witness: a run that created an object property for a node whose
\* target class was declared nowhere has returned.
C18_Witness ==
  /\ pc = "idle" /\ runs >= 1 /\ Len(results) = runs
  /\ \E i \in DOMAIN calls : calls[i].rule = "ob" /\ calls[i].run = runs
  /\ object_properties # {}
  /\ \E u \in graph : u[2] = RDF_type /\ u[3] = OWL_Class

\* C19 (kind collision is surfaced): whenever a property URI has been
\* declared as a datatype property and as an object property, or its
\* registry entry says the other kind than a declaration in the graph, an
\* inconsistency marker is attached to it: the graph holds a triple on the
\* URI besides its type, label, domain, range and definition triples.
C19_KindCollisionMarked ==
  \A key \in DOMAIN property_registry :
    LET uri == property_registry[key].uri
        collided ==
          \/ /\ <<uri, RDF_type, OWL_DatatypeProperty>> \in graph
             /\ <<uri, RDF_type, OWL_ObjectProperty>> \in graph
          \/ /\ property_registry[key].is_datatype
             /\ <<uri, RDF_type, OWL_ObjectProperty>> \in graph
          \/ /\ ~property_registry[key].is_datatype
             /\ <<uri, RDF_type, OWL_DatatypeProperty>> \in graph
    IN  collided
          => \E u \in graph :
               /\ u[1] = uri
               /\ u[2] \notin {RDF_type, RDFS_label, RDFS_domain, RDFS_range,
                               SKOS_definition}

\* the rules with the given id in a list of rules
rules_with_id(rs, rule_id) ==
  {i \in DOMAIN rs : rs[i].rule_id = rule_id}

\* C20 (rule registry toggling): register_rule appends the rule to the
\* registered list and puts its id in the active set, so get_active_rules
\* returns it.  deactivate_rule(id) removes the id from the active set
\* only: get_rules and get_rule_by_id(id) answer as before and
\* get_active_rules returns no rule with that id.  activate_rule(id) puts
\* the id in the active set: get_active_rules returns every registered rule
\* with that id again.  Neither toggle changes the registered list or the
\* activity of any other id.
C20_RegistryToggling ==
  [][ LET id == last_op'.rule_id
          listed == get_active_rules(_rules', _active_rules')
      IN  lookup' = lookup =>
            /\ last_op'.op = "register_rule"
                 => /\ Len(_rules') = Len(_rules) + 1
                    /\ SubSeq(_rules', 1, Len(_rules)) = _rules
                    /\ _rules'[Len(_rules')].rule_id = id
                    /\ _active_rules' = _active_rules \cup {id}
                    /\ \E k \in DOMAIN listed : listed[k] = _rules'[Len(_rules')]
            /\ last_op'.op = "deactivate_rule"
                 => /\ _rules' = _rules
                    /\ get_rules(_rules') = get_rules(_rules)
                    /\ get_rule_by_id(_rules', id) = get_rule_by_id(_rules, id)
                    /\ rules_with_id(_rules, id) # {}
                         => get_rule_by_id(_rules', id).rule_id = id
                    /\ rules_with_id(listed, id) = {}
                    /\ id \notin _active_rules'
                    /\ \A other \in RuleIds \ {id} :
                         other \in _active_rules' <=> other \in _active_rules
            /\ last_op'.op = "activate_rule"
                 => /\ _rules' = _rules
                    /\ id \in _active_rules'
                    /\ Cardinality(rules_with_id(listed, id))
                         = Cardinality(rules_with_id(_rules, id))
                    /\ \A other \in RuleIds \ {id} :
                         other \in _active_rules' <=> other \in _active_rules
    ]_vars

\* C20 witness: a registered rule has been deactivated and then activated
\* again and is returned by get_active_rules, next to another active rule.
C20_Witness ==
  /\ last_op.prev_op = "deactivate_rule" /\ last_op.prev_id = "r1"
  /\ last_op.op = "activate_rule" /\ last_op.rule_id = "r1"
  /\ rules_with_id(_rules, "r1") # {}
  /\ rules_with_id(get_active_rules(_rules, _active_rules), "r1") # {}
  /\ rules_with_id(get_active_rules(_rules, _active_rules), "r2") # {}
  /\ get_rule_by_id(_rules, "r1") \in RegistryRules

\* C21 as stated (lookup of an unknown rule id signals NotFound): a call of
\* get_rule_by_id with an id no registered rule carries ends in a NotFound
\* error and not in an ordinary return.
C21_NotFoundAsStated ==
  (lookup.called /\ ~lookup.known) => lookup.outcome = "NotFound"

\* C21 (lookup of an unknown rule id, amended): a call of get_rule_by_id
\* with an id no registered rule carries returns None as an ordinary return
\* value and raises nothing; with an id some registered rule carries it
\* returns a rule with that id; in both cases the registered list and the
\* active set are left as they are.
C21_UnknownIdReturnsNone ==
  [][ lookup' # lookup
        => /\ lookup'.outcome = "return"
           /\ ~lookup'.known => lookup'.value = NoRule
           /\ lookup'.known => /\ lookup'.value \in RegistryRules
                               /\ lookup'.value.rule_id = lookup'.rule_id
           /\ lookup'.known
                <=> \E i \in DOMAIN _rules : _rules[i].rule_id = lookup'.rule_id
           /\ _rules' = _rules
           /\ _active_rules' = _active_rules ]_vars

\* C21 witness: get_rule_by_id has been called with an id that is active
\* but carried by no registered rule, next to registered rules, and has
\* returned None.
C21_Witness ==
  /\ lookup.called /\ ~lookup.known /\ lookup.rule_id = "r3"
  /\ lookup.outcome = "return" /\ lookup.value = NoRule
  /\ Len(_rules) >= 2
  /\ "r3" \in _active_rules
  /\ \A i \in DOMAIN _rules : _rules[i].rule_id # "r3"

\* C24 (rule ids are unique within a registry): no two entries of the
\* registered list carry the same rule_id.
C24_RuleIdsUnique ==
  \A i, j \in DOMAIN _rules :
    i # j => _rules[i].rule_id # _rules[j].rule_id

\* C29 (active set versus registered rules): in every state reached by
\* register_rule, activate_rule and deactivate_rule calls, get_active_rules
\* returns the registered rules whose id is in the active set, each once
\* and in registration order; activate_rule with an id no registered rule
\* carries and deactivate_rule with an id that is not active complete and
\* change neither what get_rules nor what get_active_rules returns.
C29_ActiveRulesListing ==
  [][ LET listed == get_active_rules(_rules', _active_rules')
          positions == {i \in DOMAIN _rules' :
                          _rules'[i].rule_id \in _active_rules'}
          id == last_op'.rule_id
      IN  lookup' = lookup =>
            /\ Len(listed) = Cardinality(positions)
            /\ \E f \in [DOMAIN listed -> positions] :
                 /\ \A k \in DOMAIN listed : listed[k] = _rules'[f[k]]
                 /\ \A k, l \in DOMAIN listed : k < l => f[k] < f[l]
            /\ (last_op'.op = "activate_rule"
                  /\ \A i \in DOMAIN _rules : _rules[i].rule_id # id)
                 => /\ get_rules(_rules') = get_rules(_rules)
                    /\ listed = get_active_rules(_rules, _active_rules)
            /\ (last_op'.op = "deactivate_rule" /\ id \notin _active_rules)
                 => /\ get_rules(_rules') = get_rules(_rules)
                    /\ listed = get_active_rules(_rules, _active_rules)
                    /\ _active_rules' = _active_rules ]_vars

\* C29 witness: with three rules registered and the id of the middle one
\* deactivated, an id no rule carries has been activated and the listing
\* holds the two other rules.
C29_Witness ==
  /\ Len(_rules) = 3
  /\ _rules[2].rule_id \notin _active_rules
  /\ _rules[1].rule_id \in _active_rules
  /\ _rules[3].rule_id \in _active_rules
  /\ last_op.op = "activate_rule" /\ last_op.rule_id = "r3"
  /\ get_active_rules(_rules, _active_rules) = <<_rules[1], _rules[3]>>
  /\ _rules[1] # _rules[3]

\* C22 (deactivated rules never fire): a phase execution never calls
\* transform of a registered rule whose id is not in the active set: the
\* rule applied at a node is one of the currently active rules.
C22_DeactivatedRulesNeverFire ==
  [][ Len(calls') > Len(calls)
        => LET id == calls'[Len(calls')].rule
           IN  (\E i \in DOMAIN _rules : _rules[i].rule_id = id)
                 => id \in _active_rules ]_vars

\* C23 (default priority is 100): a rule without a priority of its own is
\* ordered as a rule of priority 100: the rule applied to a node has the
\* highest priority among the rules of the phase whose matches accepts the
\* node, with 100 standing for a missing priority.
C23_DefaultPriorityIs100 ==
  \A i \in DOMAIN calls :
    LET phase_rules == {rules[calls[i].phase][k] :
                          k \in DOMAIN rules[calls[i].phase]}
        declared(r) == IF r.priority = NoPriority THEN 100 ELSE r.priority
        candidates == {r \in phase_rules : matches_method(r, tree, calls[i].node)}
    IN  \E a \in candidates :
          /\ a.rule_id = calls[i].rule
          /\ \A r \in candidates : declared(r) <= declared(a)

\* C25 (processed markers are per phase): a rule application marks the
\* node in the processed set of the phase under way and in no other, and
\* is made only on a node that phase has not marked, whatever other phases
\* have marked; so a node has at most one rule application per phase, and
\* a step that applies no rule changes no processed set.
C25_MarkersPerPhase ==
  [][ /\ Len(calls') = Len(calls) + 1
        => LET c == calls'[Len(calls')]
           IN  /\ ~is_processed(processed_elements[c.phase], tree, c.node)
               /\ processed_elements' =
                    [processed_elements EXCEPT
                       ![c.phase] = @ \cup {tostring(tree, c.node)}]
               /\ \A p \in PhaseIdx \ {c.phase} :
                    processed_elements'[p] = processed_elements[p]
               /\ calls_on(c.phase, c.node) = {}
      /\ Len(calls') = Len(calls)
        => processed_elements' = processed_elements ]_vars

\* C25 witness: within one execute a node marked by the property phase has
\* had a rule applied by the relationship phase as well, and no other
\* phase has marked it.
C25_Witness ==
  \E n \in Nodes(tree) :
    /\ \E i, j \in DOMAIN calls :
         /\ calls[i].node = n /\ calls[j].node = n
         /\ calls[i].run = calls[j].run
         /\ calls[i].phase = 1 /\ calls[j].phase = 3
    /\ is_processed(processed_elements[1], tree, n)
    /\ is_processed(processed_elements[3], tree, n)
    /\ ~is_processed(processed_elements[0], tree, n)

(***************************************************************************)
(* The pipeline on a tree with two sibling subtrees of equal text          *)
(***************************************************************************)
TwinInputs == { <<RuleEq, 0>>, <<RuleLo, 0>>, <<RuleEq, 1>> }

InitTwins ==
  /\ tree = TreeNested
  /\ rules = [p \in PhaseIdx |-> <<>>]
  /\ processed_elements = [p \in PhaseIdx |-> {}]
  /\ graph = {}
  /\ property_registry = EmptyRegistry
  /\ pc = "idle"
  /\ phase_pos = 0
  /\ sorted_rules = <<>>
  /\ todo = <<>>
  /\ adds = 0
  /\ runs = 0
  /\ fresh = TRUE
  /\ run_fresh = TRUE
  /\ calls = <<>>
  /\ visits = [n \in Nodes(tree) |-> 0]
  /\ first_visit = [p \in PhaseIdx |-> [n \in Nodes(tree) |-> "unseen"]]
  /\ results = <<>>
  /\ element = NoElement
  /\ tables = ShippedTables
  /\ verdicts = <<>>
  /\ created = FALSE
  /\ _rules = <<>>
  /\ _active_rules = {}
  /\ last_op = NoOp
  /\ lookup = NoLookup

NextTwins ==
  \/ \E a \in TwinInputs : add_rule_to_phase(a[1], a[2])
  \/ reset_context
  \/ pipeline_execute
  \/ phase_execute
  \/ process_element_tree
  \/ pipeline_return

SpecTwins == InitTwins /\ [][NextTwins]_vars

\* the elements m and n have the same tag, attributes and, pairwise, the
\* same children: etree.tostring gives the same text for both
RECURSIVE same_text(_, _, _)
same_text(t, m, n) ==
  /\ t.name[m] = t.name[n]
  /\ t.functional[m] = t.functional[n]
  /\ t.doc[m] = t.doc[n]
  /\ Len(t.children[m]) = Len(t.children[n])
  /\ \A i \in DOMAIN t.children[m] :
       same_text(t, t.children[m][i], t.children[n][i])

\* the distinct nodes with the same text as n
twins_of(t, n) == {m \in Nodes(t) \ {n} : same_text(t, m, n)}

\* C26: the processed marker is keyed by the serialized text of the
\* element: of two distinct nodes with equal serializations at most one has
\* a rule applied in a phase; when the traversal of a phase arrives at a
\* node one of whose twins had a rule applied in that phase, no rule is
\* applied to it, the graph and the markers stay as they are, and its
\* children are queued for their visit exactly as for any other node.
C26_TwinsShareTheMarker ==
  [][ /\ \A p \in PhaseIdx : \A n \in Nodes(tree) : \A m \in twins_of(tree, n) :
           calls_on(p, m)' = {} \/ calls_on(p, n)' = {}
      /\ (pc = "running" /\ todo # <<>>) =>
           LET n == Head(todo)
           IN  (\E m \in twins_of(tree, n) : calls_on(cur_phase, m) # {}) =>
                 /\ calls' = calls
                 /\ graph' = graph
                 /\ processed_elements' = processed_elements
                 /\ visits' = [visits EXCEPT ![n] = @ + 1]
                 /\ todo' = tree.children[n] \o Tail(todo) ]_vars

\* C26 witness: in phase 0 a rule was applied to the first B but not to the
\* second B, although a rule of the phase matches it on its first visit;
\* the second B and its child have been visited in this phase execution.
C26_Witness ==
  /\ pc = "running"
  /\ cur_phase = 0
  /\ calls_on(0, 2) # {}
  /\ calls_on(0, 4) = {}
  /\ 2 \in twins_of(tree, 4)
  /\ tree.children[4] = <<5>>
  /\ first_visit[0][4] = "matched"
  /\ visits[4] = 1
  /\ visits[5] = 1

\* the rule of phase p that a recorded transform call names
rule_of_call(c) ==
  CHOOSE r \in {rules[c.phase][i] : i \in DOMAIN rules[c.phase]} :
    r.rule_id = c.rule

\* the context that the transform calls cs, made in this order on an empty
\* context, leave behind
RECURSIVE effects_of(_, _)
effects_of(cs, st) ==
  IF cs = <<>> THEN st
  ELSE LET c == Head(cs)
       IN  CHOOSE out \in
             { effects_of(Tail(cs), next) :
                 next \in {transform(rule_of_call(c), tree, c.node, st.graph,
                                     st.registry)} } : TRUE

calls_of_run(r) == SelectSeq(calls, LAMBDA c : c.run = r)

GuardInputs ==
  { <<RuleCg, 0>>, <<RuleLo, 0>>,
    <<RuleOg, 1>>, <<RuleDg, 1>>, <<RuleLo, 1>>,
    <<RuleOg, 3>>, <<RuleDg, 3>>, <<RuleLo, 3>> }

InitGuards ==
  /\ tree = TreeNameless
  /\ rules = [p \in PhaseIdx |-> <<>>]
  /\ processed_elements = [p \in PhaseIdx |-> {}]
  /\ graph = {}
  /\ property_registry = EmptyRegistry
  /\ pc = "idle"
  /\ phase_pos = 0
  /\ sorted_rules = <<>>
  /\ todo = <<>>
  /\ adds = 0
  /\ runs = 0
  /\ fresh = TRUE
  /\ run_fresh = TRUE
  /\ calls = <<>>
  /\ visits = [n \in Nodes(tree) |-> 0]
  /\ first_visit = [p \in PhaseIdx |-> [n \in Nodes(tree) |-> "unseen"]]
  /\ results = <<>>
  /\ element = NoElement
  /\ tables = ShippedTables
  /\ verdicts = <<>>
  /\ created = FALSE
  /\ _rules = <<>>
  /\ _active_rules = {}
  /\ last_op = NoOp
  /\ lookup = NoLookup

NextGuards ==
  \/ \E a \in GuardInputs : add_rule_to_phase(a[1], a[2])
  \/ pipeline_execute
  \/ phase_execute
  \/ process_element_tree
  \/ pipeline_return

SpecGuards == InitGuards /\ [][NextGuards]_vars

\* (class_uri, RDF.type, OWL.Class) in context.graph
class_declared(g, name) == <<get_class_uri(name), RDF_type, OWL_Class>> \in g

\* the property URI of the name is declared a property of either kind
property_declared(g, name) ==
  \/ <<get_safe_uri(name, TRUE), RDF_type, OWL_DatatypeProperty>> \in g
  \/ <<get_safe_uri(name, TRUE), RDF_type, OWL_ObjectProperty>> \in g

\* the guard of the rule returns False without calling the wrapped matches
guard_blocks(rule, t, n, g) ==
  /\ t.name[n] # NoName
  /\ \/ rule.guard = "class" /\ class_declared(g, t.name[n])
     \/ rule.guard = "property" /\ property_declared(g, t.name[n])

\* C28: a rule behind check_class_exists reports no match for a named node
\* whose class URI is declared owl:Class, a rule behind check_property_exists
\* none for a named node whose property URI is declared owl:DatatypeProperty
\* or owl:ObjectProperty, whatever the rule would create; for a node without
\* a name the guarded matches is the wrapped matches.  The phase applies to
\* an unprocessed node the first rule in priority order that is not blocked
\* and whose wrapped matches accepts the node, and marks the node processed;
\* when there is none it applies nothing and marks nothing.
C28_GuardsTurnIntoNonMatches ==
  [][ (pc = "running" /\ todo # <<>>) =>
        LET n == Head(todo)
            open == {i \in DOMAIN sorted_rules :
                       /\ ~guard_blocks(sorted_rules[i], tree, n, graph)
                       /\ tree.name[n] \in sorted_rules[i].names}
        IN  /\ \A i \in DOMAIN sorted_rules :
                 guard_blocks(sorted_rules[i], tree, n, graph)
                   => ~matches(sorted_rules[i], tree, n, graph, property_registry)
            /\ \A i \in DOMAIN sorted_rules :
                 tree.name[n] = NoName
                   => (matches(sorted_rules[i], tree, n, graph, property_registry)
                         <=> NoName \in sorted_rules[i].names)
            /\ ~is_processed(processed_elements[cur_phase], tree, n) =>
                 IF open = {}
                   THEN calls' = calls /\ processed_elements' = processed_elements
                   ELSE LET k == CHOOSE i \in open : \A j \in open : i <= j
                        IN  /\ calls' = Append(calls,
                                  [run |-> runs, phase |-> cur_phase, node |-> n,
                                   rule |-> sorted_rules[k].rule_id])
                            /\ is_processed(processed_elements'[cur_phase], tree, n)
    ]_vars

\* C28 witness: in phase 0 the guarded class rule declared the class of the
\* first PaymentOption node; on the second one it was blocked and the rule of
\* lower priority was applied and marked the node; the guarded class rule was
\* applied to both nodes without a name.  In phase 1 the guarded property
\* rule was applied to the first PaymentOption node and to both nodes without
\* a name, and to the second PaymentOption node no rule was applied.
C28_Witness ==
  /\ pc = "idle" /\ runs = 1
  /\ sorted_by_priority(rules[0]) = <<RuleCg, RuleLo>>
  /\ rules[1] = <<RuleOg>>
  /\ \E i \in calls_on(0, 2) : calls[i].rule = "cg"
  /\ \E i \in calls_on(0, 4) : calls[i].rule = "lo"
  /\ is_processed(processed_elements[0], tree, 4)
  /\ \E i \in calls_on(0, 5) : calls[i].rule = "cg"
  /\ \E i \in calls_on(0, 6) : calls[i].rule = "cg"
  /\ \E i \in calls_on(1, 2) : calls[i].rule = "og"
  /\ calls_on(1, 4) = {}
  /\ \E i \in calls_on(1, 5) : calls[i].rule = "og"
  /\ \E i \in calls_on(1, 6) : calls[i].rule = "og"
  /\ class_declared(graph, "PaymentOption")
  /\ property_declared(graph, "PaymentOption")

(***************************************************************************)
(* The pipeline offered phase indexes inside and outside the phases list   *)
(***************************************************************************)
\* RuleHi is offered with indexes outside the list only, RuleLo with the
\* first and the last index of the list
RangeInputs ==
  { <<RuleHi, -1>>, <<RuleHi, NumPhases>>, <<RuleHi, NumPhases + 2>>,
    <<RuleLo, 0>>, <<RuleLo, NumPhases - 1>> }

InitRange == Init /\ tree = TreeDistinct

NextRange ==
  \/ \E a \in RangeInputs : add_rule_to_phase(a[1], a[2])
  \/ pipeline_execute
  \/ phase_execute
  \/ process_element_tree
  \/ pipeline_return

SpecRange == InitRange /\ [][NextRange]_vars

\* C30: add_rule_to_phase(rule, i) adds the rule to phase i only when
\* 0 <= i < number of phases.  Every call returns (the pipeline stays idle
\* and the call is counted); it either appends one offered rule to the list
\* of the phase whose index it was offered with, or leaves every list as it
\* was; a list of phase p holds only rules offered with index p, so the rule
\* offered with a negative or too large index only is in no list, and the
\* pipeline never applies it.
C30_OutOfRangeIndexIgnored ==
  [][ /\ adds' = adds + 1 =>
           /\ pc = "idle" /\ pc' = "idle"
           /\ \/ rules' = rules
              \/ \E a \in RangeInputs :
                   /\ a[2] \in PhaseIdx
                   /\ rules' = [rules EXCEPT ![a[2]] = Append(@, a[1])]
      /\ \A p \in PhaseIdx : \A i \in DOMAIN rules'[p] :
           \E a \in RangeInputs : a[1] = rules'[p][i] /\ a[2] = p
      /\ \A i \in DOMAIN calls' : calls'[i].rule # RuleHi.rule_id
    ]_vars

\* C30 witness: three add_rule_to_phase calls were made, of which only the
\* one for the last phase left a rule in a list, so two were made with an
\* index outside the list; the execute that followed is over and applied the
\* rule of the last phase to a PaymentOption node, which the ignored rule
\* matches too.
C30_Witness ==
  /\ pc = "idle" /\ runs = 1 /\ adds = 3
  /\ rules = [p \in PhaseIdx |-> IF p = NumPhases - 1 THEN <<RuleLo>> ELSE <<>>]
  /\ matches_method(RuleHi, tree, 2)
  /\ \E i \in calls_on(NumPhases - 1, 2) : calls[i].rule = RuleLo.rule_id

====================================================================
